---- MODULE Spec2Model ----
(***************************************************************************)
(* Model of the STOMP session layer of aiojlrpy (src/aiojlrpy/stomp.py):   *)
(* the frame codec (_transmit / _parse_message), the subscription          *)
(* registry, the connect / disconnect life cycle and the inbound message   *)
(* dispatcher (_on_message).                                               *)
(*                                                                         *)
(* Text is a sequence of tokens.  A token is either one of the characters  *)
(* the codec treats specially (line feed, NUL, colon, blank) or an atom    *)
(* standing for a run of ordinary characters ("SEND", "sub-", "1", ...).   *)
(***************************************************************************)
EXTENDS Integers, Sequences, FiniteSets, TLC

\* BYTE["LF"], BYTE["NULL"] and the characters split() and strip() look for.
LF == "<LF>"
NUL == "<NUL>"
COLON == ":"
SP == " "

\* STOMPCommands, each as a one-token text.
STOMPCommands ==
    { <<"CONNECT">>, <<"CONNECTED">>, <<"MESSAGE">>, <<"DISCONNECT">>,
      <<"SUBSCRIBE">>, <<"UNSUBSCRIBE">>, <<"SEND">> }

\* Python's None, and a present text value, for an optional text.
None == [some |-> FALSE, val |-> <<>>]
Some(t) == [some |-> TRUE, val |-> t]

\* Python truthiness of an optional text: None and "" are falsy.
Truthy(o) == o.some /\ o.val # <<>>

-----------------------------------------------------------------------------
(* Dictionaries with insertion order: a sequence of <<key, value>> pairs   *)
(* with pairwise distinct keys.                                            *)

DictKeys(d) == { d[i][1] : i \in 1..Len(d) }

DictHas(d, k) == \E i \in 1..Len(d) : d[i][1] = k

DictGet(d, k) == d[CHOOSE i \in 1..Len(d) : d[i][1] = k][2]

\* d[k] = v : overwrite in place when k is present, else append.
DictSet(d, k, v) ==
    IF DictHas(d, k)
    THEN [i \in 1..Len(d) |-> IF d[i][1] = k THEN <<k, v>> ELSE d[i]]
    ELSE Append(d, <<k, v>>)

\* Equality of two dicts (Python's ==): same keys, same values, any order.
DictEq(d, e) ==
    /\ DictKeys(d) = DictKeys(e)
    /\ \A k \in DictKeys(d) : DictGet(d, k) = DictGet(e, k)

-----------------------------------------------------------------------------
(* Frame codec.                                                            *)

RECURSIVE Concat(_)
Concat(ss) == IF ss = <<>> THEN <<>> ELSE Head(ss) \o Concat(Tail(ss))

\* The text _transmit builds (stomp.py 272-291) before handing it to the
\* transport.  command and msg are optional texts, headers is a dict or None
\* (an empty dict and None are both falsy, so headers is passed as a dict).
transmit(command, headers, msg) ==
    LET cmdPart == IF Truthy(command) THEN command.val \o <<LF>> ELSE <<>>
        hdrPart == IF Len(headers) > 0
                   THEN Concat([i \in 1..Len(headers) |->
                                   headers[i][1] \o <<COLON>> \o headers[i][2] \o <<LF>>])
                        \o <<LF>>
                   ELSE <<>>
        msgPart == IF Truthy(msg) THEN msg.val ELSE <<>>
    IN  cmdPart \o hdrPart \o msgPart \o <<NUL>>

\* str.split(sep): k occurrences of sep give k+1 pieces.
RECURSIVE Split(_, _)
Split(s, sep) ==
    IF \A i \in 1..Len(s) : s[i] # sep
    THEN <<s>>
    ELSE LET i == CHOOSE j \in 1..Len(s) :
                      s[j] = sep /\ \A k \in 1..(j - 1) : s[k] # sep
         IN  <<SubSeq(s, 1, i - 1)>> \o Split(SubSeq(s, i + 1, Len(s)), sep)

\* str.strip(): drop leading and trailing whitespace.
RECURSIVE Strip(_)
Strip(s) ==
    IF s = <<>> THEN s
    ELSE IF Head(s) \in {SP, LF} THEN Strip(Tail(s))
    ELSE IF s[Len(s)] \in {SP, LF} THEN Strip(SubSeq(s, 1, Len(s) - 1))
    ELSE s

\* The header loop of _parse_message (stomp.py 254-259), from line index i
\* (1-based here: lines[i] is Python's lines[i-1]).
RECURSIVE ParseHeaders(_, _, _)
ParseHeaders(lines, i, headers) ==
    IF i > Len(lines) THEN [err |-> "IndexError"]
    ELSE IF lines[i] = <<>> THEN [err |-> "", i |-> i, headers |-> headers]
    ELSE LET kv == Split(lines[i], COLON)
         IN  IF Len(kv) # 2 THEN [err |-> "ValueError"]
             ELSE ParseHeaders(lines, i + 1, DictSet(headers, kv[1], kv[2]))

\* _parse_message (stomp.py 238-264): the parsed frame, or the exception.
parse_message(frame) ==
    LET lines == Split(frame, LF)
        command == Strip(lines[1])
        h == ParseHeaders(lines, 2, <<>>)
    IN  IF h.err # "" THEN [err |-> h.err]
        ELSE IF h.i + 1 > Len(lines) THEN [err |-> "IndexError"]
        ELSE [err |-> "", command |-> command, headers |-> h.headers,
              body |-> IF lines[h.i + 1] = <<NUL>> THEN None
                       ELSE Some(lines[h.i + 1])]

-----------------------------------------------------------------------------
(* Numbers as text: str(n) and f"sub-{n}".                                 *)

DigitOf(n) == <<"0", "1", "2", "3", "4", "5", "6", "7", "8", "9">>[n + 1]

RECURSIVE Str(_)
Str(n) == IF n < 10 THEN <<DigitOf(n)>> ELSE Str(n \div 10) \o <<DigitOf(n % 10)>>

SubIdText(n) == <<"sub-">> \o Str(n)

-----------------------------------------------------------------------------
(* JSON values, as far as the dispatcher looks into them.  An object is a  *)
(* dict of <<key, value>> pairs, a list is the dict of its <<index, value>>*)
(* pairs, anything else is an atom that is only compared and tested for    *)
(* truth.                                                                  *)

JNone == [kind |-> "none", atom |-> "", items |-> <<>>]
JAtom(a) == [kind |-> "atom", atom |-> a, items |-> <<>>]
JObj(pairs) == [kind |-> "object", atom |-> "", items |-> pairs]
JList(vals) ==
    [kind |-> "list", atom |-> "",
     items |-> [i \in 1..Len(vals) |-> <<DigitOf(i - 1), vals[i]>>]]

\* Atoms that Python treats as false: "", 0, false, null.
FalsyAtoms == {"", "0", "false", "null"}

\* bool(v) of a decoded JSON value (None included).
JTruthy(v) ==
    CASE v.kind = "none" -> FALSE
      [] v.kind = "atom" -> v.atom \notin FalsyAtoms
      [] OTHER -> v.items # <<>>

\* dict.get(key): the value, or None.
JGet(obj, key) == IF DictHas(obj.items, key) THEN DictGet(obj.items, key) ELSE JNone

\* The message objects the server pushes in this model.
ObjFull ==
    JObj(<< <<"t", JAtom("1690000000")>>, <<"v", JAtom("VIN123")>>,
            <<"st", JAtom("svc")>>, <<"a", JObj(<< <<"k", JAtom("1")>> >>)>> >>)
ObjPlain == JObj(<< <<"k", JAtom("1")>> >>)
ObjOther == JObj(<< <<"v", JAtom("VIN456")>>, <<"a", JAtom("alarm")>> >>)
ObjZero == JObj(<< <<"v", JAtom("VIN123")>>, <<"a", JAtom("0")>> >>)

\* The body texts of this model (one token each) and what json.loads makes
\* of them.
JsonDocs ==
    [doc \in {"{full}", "{plain}", "{zero}", "[full,plain,other]"} |->
        CASE doc = "{full}" -> ObjFull
          [] doc = "{plain}" -> ObjPlain
          [] doc = "{zero}" -> ObjZero
          [] OTHER -> JList(<<ObjFull, ObjPlain, ObjOther>>)]

\* json.loads (stomp.py 199): the decoded value, or the exception.
json_loads(text) ==
    IF Len(text) = 1 /\ text[1] \in DOMAIN JsonDocs
    THEN [err |-> "", value |-> JsonDocs[text[1]]]
    ELSE [err |-> "JSONDecodeError"]

\* _filter_non_printable (stomp.py 215-217): NUL is the one token of this
\* model outside string.printable.
filter_non_printable(raw_str) == SelectSeq(raw_str, LAMBDA x : x # NUL)

\* _get_status_message (stomp.py 219-229); received (the wall clock) is left
\* out.  headers is the parsed header dict, body a decoded object.
get_status_message(command, headers, body) ==
    [command |-> command,
     message_timestamp |-> JGet(body, "t"),
     vin |-> JGet(body, "v"),
     service |-> JGet(body, "st"),
     topic |-> IF DictHas(headers, <<"destination">>)
               THEN Some(DictGet(headers, <<"destination">>)) ELSE None,
     data |-> IF JTruthy(JGet(body, "a")) THEN JGet(body, "a") ELSE body]

-----------------------------------------------------------------------------
(* The session: JLRStompClient.                                            *)

\* Bounds of the model.  A session is either call-heavy (up to MaxCalls API
\* calls on any destination, the server sending nothing but the CONNECTED
\* frame) or message-heavy (up to MaxBusyCalls API calls on destinations A
\* and B, and MaxInbound inbound payloads of any kind) or faulty (up to
\* MaxBusyCalls API calls, among them Connection.ws_disconnect, and
\* MaxInbound inbound payloads, among them malformed frames and messages the
\* dispatcher has no subscription for).  MaxHeaders bounds the header dicts
\* of the codec runs.
MaxCalls == 4
MaxBusyCalls == 2
MaxInbound == 2
MaxHeaders == 2

\* The constructor's arguments (stomp.py 67-70), urlparse(url).hostname.
DeviceId == <<"dev1">>
AccessToken == <<"token">>
Email == <<"user@example">>
Host == <<"host">>

\* Destinations a caller subscribes to; "topic" is the literal of line 129.
Dests == { <<"A">>, <<"B">>, <<"topic">> }

\* Caller callbacks: a plain function and a coroutine function.
Callbacks == {"cb_sync", "cb_async"}
iscoroutinefunction(f) == f = "cb_async"

\* Caller tasks that make API calls on the session.
Tasks == {"t1"}

VARIABLES
    subscriptions,  \* self._subscriptions: dict destination -> Subscription
    connected,      \* self.connected
    ws,             \* the transport: "idle", "opening", "open", "closed"
    sent,           \* every text handed to self.ws.send_message, in call order
    calls,          \* per caller task: the API coroutine it is in
    disp,           \* the _on_message coroutine in flight
    delivered,      \* every call of a subscription callback, in call order
    inlog,          \* every payload given to _on_message, with the exception
                    \* it ended in and the registry and flag it found
    hist,           \* completed registry operations, in order
    nCalls,         \* API calls started
    budget,         \* what this session's callers and server may do
    codec,          \* a codec run: input, frame text, parse result
    conn            \* the Connection that owns the session (connection.py)

vars == <<subscriptions, connected, ws, sent, calls, disp, delivered, inlog,
          hist, nCalls, budget, codec, conn>>

\* self.ws.ws_connected (read at stomp.py 108).
ws_connected == ws = "open"

NoCall ==
    [op |-> "", pc |-> "", destination |-> <<>>, callback |-> "", sub_id |-> 0,
     keys |-> <<>>, subs0 |-> <<>>, from |-> 0, err |-> ""]

DispIdle == [pc |-> "idle", headers |-> <<>>, vin |-> JNone, at |-> 0]

CodecIdle == [pc |-> "off", command |-> None, headers |-> <<>>, body |-> None,
              out |-> [err |-> ""]]

\* ws.send_message(text), called by `by` (a caller task, "on_connect" or
\* "on_message"; n is then the number of the inbound payload being handled).
SendMessage(by, text) == sent' = Append(sent, [by |-> by, n |-> 0, text |-> text])

\* A variant of _get_next_sub_id that counts the entries instead of taking
\* the largest id.
get_next_sub_id_count(subs) == Len(subs) + 1

\* _get_next_sub_id (stomp.py 231-236).
get_next_sub_id(subs) ==
    IF Len(subs) > 0
    THEN LET ids == { subs[i][2].sub_id : i \in 1..Len(subs) }
         IN  (CHOOSE m \in ids : \A n \in ids : n <= m) + 1
    ELSE 1

\* dict.pop(key) on a dict that has the key.
DictPop(d, k) == SelectSeq(d, LAMBDA kv : kv[1] # k)

\* list(dict): the keys in insertion order.
DictKeyList(d) == [i \in 1..Len(d) |-> d[i][1]]

\* The frame subscribe() transmits (stomp.py 117-123).
subscribe_frame(sub_id, destination) ==
    transmit(Some(<<"SUBSCRIBE">>),
             DictSet(DictSet(DictSet(<<>>, <<"id">>, SubIdText(sub_id)),
                             <<"destination">>, destination),
                     <<"deviceId">>, DeviceId),
             None)

\* The frame unsubscribe() transmits (stomp.py 128-132): the id header comes
\* from the registry entry under the literal key "topic", when there is one.
unsubscribe_frame(subs, destination) ==
    LET sub == IF DictHas(subs, <<"topic">>)
               THEN Some(SubIdText(DictGet(subs, <<"topic">>).sub_id)) ELSE None
        headers == IF sub.some THEN DictSet(<<>>, <<"id">>, sub.val) ELSE <<>>
    IN  transmit(Some(<<"UNSUBSCRIBE">>), headers, None)

\* The frame _on_connect transmits (stomp.py 162-169).
connect_frame ==
    transmit(Some(<<"CONNECT">>),
             << <<<<"host">>, Host>>, <<<<"accept-version">>, <<"1.2">>>>,
                <<<<"heart-beat">>, <<"10000,10000">>>>, <<<<"deviceId">>, DeviceId>>,
                <<<<"Authorization">>, <<"Bearer", SP>> \o AccessToken>>,
                <<<<"userName">>, Email>> >>,
             None)

\* send() (stomp.py 135-142): the SEND frame for destination.
send(destination, headers, message) ==
    transmit(Some(<<"SEND">>), DictSet(headers, <<"destination">>, destination),
             message)

AckDestination == <<"/app/messageRecieved">>

\* A variant of ack_message that never sends the vin header.
ack_message_no_vin(message_id, vin) ==
    send(AckDestination,
         DictSet(DictSet(<<>>, <<"device">>, DeviceId),
                 <<"content-type">>, <<"application/json;charset=UTF-8">>),
         Some(<<"{\"a\": \"">> \o message_id \o <<"\"}">>))

\* ack_message() (stomp.py 148-157); vin is the StatusMessage's vin.
ack_message(message_id, vin) ==
    LET h0 == IF JTruthy(vin) THEN DictSet(<<>>, <<"vin">>, <<vin.atom>>) ELSE <<>>
        h1 == DictSet(h0, <<"device">>, DeviceId)
        h2 == DictSet(h1, <<"content-type">>, <<"application/json;charset=UTF-8">>)
    IN  send(AckDestination, h2, Some(<<"{\"a\": \"">> \o message_id \o <<"\"}">>))

\* What the server sends in this model.
Heartbeat == <<LF>>
ConnectedFrame == <<"CONNECTED", LF, "version", COLON, "1.2", LF, LF, NUL>>
MessageFrame(destination, message_id, doc) ==
    <<"MESSAGE", LF, "destination", COLON>> \o destination
        \o <<LF, "message-id", COLON>> \o message_id \o <<LF, LF, doc, NUL>>
MessageId == <<"m-77">>
MessageDests == { <<"B">> }
InFrames ==
    {Heartbeat, ConnectedFrame}
        \cup { MessageFrame(d, MessageId, doc) :
                   d \in MessageDests,
                   doc \in {"{full}", "{plain}", "[full,plain,other]"} }

\* Frames a dispatcher cannot process: a header line without a colon, a
\* frame cut off before the blank line that ends the headers, a MESSAGE for
\* a destination nobody subscribes to; and a MESSAGE whose `a` is 0.
NoColonFrame == <<"MESSAGE", LF, "destination", LF, LF, "{plain}", NUL>>
TruncatedFrame == <<"MESSAGE", LF, "destination", COLON, "B">>
StrayFrame == MessageFrame(<<"A">>, MessageId, "{plain}")
ZeroFrame == MessageFrame(<<"B">>, MessageId, "{zero}")
FaultyFrames == {ConnectedFrame, NoColonFrame, TruncatedFrame, StrayFrame, ZeroFrame}

AllFrames == InFrames \cup FaultyFrames

\* The calls of a caller that drives the session itself, and of one that
\* goes through the Connection.
SessionApi == {"subscribe", "unsubscribe", "disconnect"}
ConnectionApi == {"subscribe", "disconnect", "ws_disconnect"}

QuietProfile ==
    [calls |-> MaxCalls, dests |-> Dests, inbound |-> 1,
     frames |-> {ConnectedFrame}, api |-> SessionApi]
BusyProfile ==
    [calls |-> MaxBusyCalls, dests |-> { <<"A">>, <<"B">> }, inbound |-> MaxInbound,
     frames |-> InFrames, api |-> SessionApi]
FaultyProfile ==
    [calls |-> MaxBusyCalls, dests |-> { <<"B">> }, inbound |-> MaxInbound,
     frames |-> FaultyFrames, api |-> ConnectionApi]
Profiles == {QuietProfile, BusyProfile, FaultyProfile}

\* Connection.__init__ (connection.py 57-59): the message callback it was
\* given ("" is None), no STOMP client and no task yet.  pc is where
\* ws_connect stands, urls counts the websocket-URL requests made.
NewConnection(callback) ==
    [ws_message_callback |-> callback, sc |-> FALSE, sc_task |-> FALSE,
     pc |-> "new", urls |-> 0, err |-> ""]

\* The state JLRStompClient.__init__ leaves (stomp.py 67-83).
Constructed ==
    /\ subscriptions = <<>>
    /\ connected = FALSE
    /\ ws = "idle"
    /\ sent = <<>>
    /\ calls = [t \in Tasks |-> NoCall]
    /\ disp = DispIdle
    /\ delivered = <<>>
    /\ inlog = <<>>
    /\ hist = <<>>
    /\ nCalls = 0

\* A Connection before ws_connect, configured with a message callback or
\* without one.  The session variables hold what the client's constructor
\* will set.
Init ==
    /\ Constructed
    /\ budget \in Profiles
    /\ codec = CodecIdle
    /\ \E f \in {"", "cb_sync"} : conn = NewConnection(f)

\* A caller starts a call on a session it sees connected, one call at a time
\* per task.
Ready(t) ==
    /\ calls[t].pc \in {"", "done", "raised"}
    /\ connected
    /\ nCalls < budget.calls

Allowed(t, op) == Ready(t) /\ op \in budget.api

Event(op, destination, sub_id) ==
    [op |-> op, destination |-> destination, sub_id |-> sub_id]

\* A variant of ws_connect that asks for the websocket URL without looking
\* at the message callback.
ws_connect_unchecked(t) ==
    /\ conn.pc = "new"
    /\ calls[t].pc = ""
    /\ conn' = [conn EXCEPT !.pc = "get_websocket_url", !.urls = conn.urls + 1]
    /\ UNCHANGED <<subscriptions, connected, ws, sent, calls, disp, delivered,
                   inlog, hist, nCalls, budget, codec>>

\* ws_connect() up to its first await (connection.py 131-132, 147-150):
\* without a message callback it raises JLRException, else it asks for the
\* websocket URL.
ws_connect(t) ==
    /\ conn.pc = "new"
    /\ calls[t].pc = ""
    /\ IF conn.ws_message_callback # ""
       THEN conn' = [conn EXCEPT !.pc = "get_websocket_url", !.urls = conn.urls + 1]
       ELSE conn' = [conn EXCEPT !.pc = "raised", !.err = "JLRException"]
    /\ UNCHANGED <<subscriptions, connected, ws, sent, calls, disp, delivered,
                   inlog, hist, nCalls, budget, codec>>

\* connect() (stomp.py 85-90): start the transport's connection task.
connect(t) ==
    /\ calls[t].pc = ""
    /\ ws = "idle"
    /\ ws' = "opening"
    /\ calls' = [calls EXCEPT ![t] = [NoCall EXCEPT !.op = "connect", !.pc = "poll"]]
    /\ UNCHANGED <<subscriptions, connected, sent, disp, delivered, inlog, hist,
                   nCalls, budget, codec>>

\* ws_connect() with the URL (connection.py 133-139): create the STOMP
\* client and enter its connect().
ws_connect_resume(t) ==
    /\ conn.pc = "get_websocket_url"
    /\ conn' = [conn EXCEPT !.pc = "connect", !.sc = TRUE]
    /\ connect(t)

\* A variant of the poll loop that ends as soon as the transport is open.
connect_poll_on_open(t) ==
    /\ calls[t].op = "connect" /\ calls[t].pc = "poll"
    /\ ws_connected
    /\ calls' = [calls EXCEPT ![t].pc = "done"]
    /\ conn' = [conn EXCEPT !.pc = "connected", !.sc_task = TRUE]
    /\ UNCHANGED <<subscriptions, connected, ws, sent, disp, delivered, inlog,
                   hist, nCalls, budget, codec>>

\* connect() (stomp.py 92-95): the poll loop ends once connected is seen, and
\* ws_connect keeps the task it returns (connection.py 139).  The subscribes
\* that follow in ws_connect are calls of the caller like any other.
connect_poll(t) ==
    /\ calls[t].op = "connect" /\ calls[t].pc = "poll"
    /\ connected
    /\ calls' = [calls EXCEPT ![t].pc = "done"]
    /\ conn' = [conn EXCEPT !.pc = "connected", !.sc_task = TRUE]
    /\ UNCHANGED <<subscriptions, connected, ws, sent, disp, delivered, inlog,
                   hist, nCalls, budget, codec>>

\* A variant of _on_connect that marks the session connected as soon as the
\* transport is open.
on_connect_sets_connected ==
    /\ ws = "opening"
    /\ ws' = "open"
    /\ connected' = TRUE
    /\ SendMessage("on_connect", connect_frame)
    /\ UNCHANGED <<subscriptions, calls, disp, delivered, inlog, hist, nCalls,
                   budget, codec, conn>>

\* The transport's open signal: _on_connect (stomp.py 159-169).
on_connect ==
    /\ ws = "opening"
    /\ ws' = "open"
    /\ SendMessage("on_connect", connect_frame)
    /\ UNCHANGED <<subscriptions, connected, calls, disp, delivered, inlog, hist,
                   nCalls, budget, codec, conn>>

\* A variant of _on_disconnect that leaves the registry alone.
on_disconnect_keeps_registry ==
    /\ ws \in {"opening", "open"}
    /\ ws' = "closed"
    /\ connected' = FALSE
    /\ hist' = Append(hist, Event("close", <<>>, 0))
    /\ UNCHANGED <<subscriptions, sent, calls, disp, delivered, inlog, nCalls,
                   budget, codec, conn>>

\* The transport's close signal: _on_disconnect (stomp.py 171-175).  The
\* transport gives it for a connection that failed to open as for one that
\* was open.
on_disconnect ==
    /\ ws \in {"opening", "open"}
    /\ ws' = "closed"
    /\ subscriptions' = <<>>
    /\ connected' = FALSE
    /\ hist' = Append(hist, Event("close", <<>>, 0))
    /\ UNCHANGED <<sent, calls, disp, delivered, inlog, nCalls, budget, codec, conn>>

\* subscribe() up to its await (stomp.py 117-123).
subscribe(t, destination, callback) ==
    /\ Allowed(t, "subscribe")
    /\ destination \in budget.dests
    /\ LET sub_id == get_next_sub_id(subscriptions)
       IN  /\ SendMessage(t, subscribe_frame(sub_id, destination))
           /\ calls' = [calls EXCEPT ![t] =
                  [NoCall EXCEPT !.op = "subscribe", !.pc = "await_transmit",
                                 !.destination = destination,
                                 !.callback = callback, !.sub_id = sub_id,
                                 !.from = Len(sent)]]
    /\ nCalls' = nCalls + 1
    /\ UNCHANGED <<subscriptions, connected, ws, disp, delivered, inlog, hist,
                   budget, codec, conn>>

\* subscribe() after its await (stomp.py 124).
subscribe_resume(t) ==
    /\ calls[t].op = "subscribe" /\ calls[t].pc = "await_transmit"
    /\ subscriptions' =
           DictSet(subscriptions, calls[t].destination,
                   [sub_id |-> calls[t].sub_id, callback |-> calls[t].callback])
    /\ calls' = [calls EXCEPT ![t].pc = "done"]
    /\ hist' = Append(hist, Event("subscribe", calls[t].destination, calls[t].sub_id))
    /\ UNCHANGED <<connected, ws, sent, disp, delivered, inlog, nCalls, budget, codec, conn>>

\* unsubscribe() up to its await (stomp.py 128-132).  sub_id keeps, for the
\* record, the id the registry holds under destination at the call (0: none).
unsubscribe(t, destination) ==
    /\ Allowed(t, "unsubscribe")
    /\ destination \in budget.dests
    /\ SendMessage(t, unsubscribe_frame(subscriptions, destination))
    /\ calls' = [calls EXCEPT ![t] =
           [NoCall EXCEPT !.op = "unsubscribe", !.pc = "await_transmit",
                          !.destination = destination,
                          !.sub_id = IF DictHas(subscriptions, destination)
                                     THEN DictGet(subscriptions, destination).sub_id
                                     ELSE 0,
                          !.subs0 = subscriptions,
                          !.from = Len(sent)]]
    /\ nCalls' = nCalls + 1
    /\ UNCHANGED <<subscriptions, connected, ws, disp, delivered, inlog, hist,
                   budget, codec, conn>>

\* unsubscribe() after its await (stomp.py 133): pop() without a default
\* raises KeyError when the destination is not in the registry.
unsubscribe_resume(t) ==
    /\ calls[t].op = "unsubscribe" /\ calls[t].pc = "await_transmit"
    /\ IF DictHas(subscriptions, calls[t].destination)
       THEN /\ subscriptions' = DictPop(subscriptions, calls[t].destination)
            /\ calls' = [calls EXCEPT ![t].pc = "done"]
            /\ hist' = Append(hist, Event("unsubscribe", calls[t].destination, 0))
       ELSE /\ calls' = [calls EXCEPT ![t].pc = "raised", ![t].err = "KeyError"]
            /\ UNCHANGED <<subscriptions, hist>>
    /\ UNCHANGED <<connected, ws, sent, disp, delivered, inlog, nCalls, budget, codec, conn>>

\* disconnect() up to its first await (stomp.py 102-104): snapshot the keys,
\* then either the first unsubscribe()'s transmit or, with no subscription,
\* the DISCONNECT frame.  subs0 keeps the registry at the call for the record.
disconnect_frame == transmit(Some(<<"DISCONNECT">>), <<>>, None)

disconnect(t) ==
    /\ Allowed(t, "disconnect")
    /\ LET keys == DictKeyList(subscriptions)
       IN  /\ SendMessage(t, IF keys = <<>> THEN disconnect_frame
                             ELSE unsubscribe_frame(subscriptions, Head(keys)))
           /\ calls' = [calls EXCEPT ![t] =
                  [NoCall EXCEPT !.op = "disconnect",
                                 !.pc = IF keys = <<>> THEN "await_disconnect"
                                        ELSE "await_unsubscribe",
                                 !.keys = keys, !.subs0 = subscriptions,
                                 !.from = Len(sent)]]
    /\ nCalls' = nCalls + 1
    /\ UNCHANGED <<subscriptions, connected, ws, disp, delivered, inlog, hist,
                   budget, codec, conn>>

\* disconnect() resumed inside unsubscribe(keys[0]) (stomp.py 133, then
\* 102-104): pop the destination, then transmit for the next key or, after
\* the last one, the DISCONNECT frame.  A KeyError leaves disconnect().
disconnect_resume(t) ==
    /\ calls[t].op = "disconnect" /\ calls[t].pc = "await_unsubscribe"
    /\ LET d == Head(calls[t].keys)
           rest == Tail(calls[t].keys)
           subs1 == DictPop(subscriptions, d)
       IN  IF DictHas(subscriptions, d)
           THEN /\ subscriptions' = subs1
                /\ SendMessage(t, IF rest = <<>> THEN disconnect_frame
                                  ELSE unsubscribe_frame(subs1, Head(rest)))
                /\ calls' = [calls EXCEPT ![t].keys = rest,
                                          ![t].pc = IF rest = <<>>
                                                    THEN "await_disconnect"
                                                    ELSE "await_unsubscribe"]
                /\ hist' = Append(hist, Event("unsubscribe", d, 0))
           ELSE /\ calls' = [calls EXCEPT ![t].pc = "raised", ![t].err = "KeyError"]
                /\ UNCHANGED <<subscriptions, sent, hist>>
    /\ UNCHANGED <<connected, ws, disp, delivered, inlog, nCalls, budget, codec, conn>>

\* disconnect() after the DISCONNECT frame (stomp.py 107): the close sentinel.
disconnect_close(t) ==
    /\ calls[t].op = "disconnect" /\ calls[t].pc = "await_disconnect"
    /\ SendMessage(t, <<"CLOSE">>)
    /\ calls' = [calls EXCEPT ![t].pc = "poll"]
    /\ UNCHANGED <<subscriptions, connected, ws, disp, delivered, inlog, hist,
                   nCalls, budget, codec, conn>>

\* disconnect() (stomp.py 108-110): the poll loop ends once the transport is
\* seen closed.
disconnect_poll(t) ==
    /\ calls[t].op = "disconnect" /\ calls[t].pc = "poll"
    /\ ~ws_connected
    /\ connected' = FALSE
    /\ calls' = [calls EXCEPT ![t].pc = "done"]
    /\ hist' = Append(hist, Event("disconnect", <<>>, 0))
    /\ UNCHANGED <<subscriptions, ws, sent, disp, delivered, inlog, nCalls, budget, codec, conn>>

\* bool() of a Python object that is not a container: None and False are
\* false; a bound method, like any other object, is true.
PyBool(kind) == kind \notin {"None", "False"}

\* The attribute `done` of an asyncio.Task: the method itself.  Its result
\* would be what done() returns, were it called.
TaskDone == "bound method"

\* ws_disconnect() (connection.py 152-155): `not self._sc_task.done` tests
\* the method object, so the branch that awaits self.sc.disconnect() is
\* taken only if that object is false.
ws_disconnect(t) ==
    /\ Allowed(t, "ws_disconnect")
    /\ conn.sc_task
    /\ IF ~PyBool(TaskDone)
       THEN disconnect(t)
       ELSE /\ calls' = [calls EXCEPT ![t] =
                   [NoCall EXCEPT !.op = "ws_disconnect", !.pc = "done",
                                  !.subs0 = subscriptions, !.from = Len(sent)]]
            /\ nCalls' = nCalls + 1
            /\ UNCHANGED <<subscriptions, connected, ws, sent, disp, delivered,
                           inlog, hist, budget, codec, conn>>

-----------------------------------------------------------------------------
(* The dispatcher: _on_message.                                            *)

\* A variant of send_heartbeat that goes through _transmit, which terminates
\* every text with NUL.
send_heartbeat_as_frame == <<transmit(None, <<>>, Some(<<LF>>))>>

\* send_heartbeat() (stomp.py 144-146): the texts it sends.
send_heartbeat == <<Heartbeat>>

Call(callback, event, ran) == [callback |-> callback, event |-> event, ran |-> ran]

\* A variant of the loop over a decoded list that dispatches the first
\* element only.
dispatch_list_first_only(items, i, subs, p, acc) ==
    IF i > Len(items) THEN [err |-> "", invoked |-> acc]
    ELSE IF ~DictHas(p.headers, <<"destination">>)
            \/ ~DictHas(subs, DictGet(p.headers, <<"destination">>))
    THEN [err |-> "KeyError", invoked |-> acc]
    ELSE LET f == DictGet(subs, DictGet(p.headers, <<"destination">>)).callback
         IN  [err |-> "",
              invoked |-> Append(acc, Call(f, get_status_message(p.command,
                                                  p.headers, items[i][2]),
                                           ~iscoroutinefunction(f)))]

\* The loop over a decoded list (stomp.py 202-205): the callback is looked
\* up and called once per element and never awaited, so the body of a
\* coroutine function does not run.
RECURSIVE dispatch_list(_, _, _, _, _)
dispatch_list(items, i, subs, p, acc) ==
    IF i > Len(items) THEN [err |-> "", invoked |-> acc]
    ELSE IF ~DictHas(p.headers, <<"destination">>)
            \/ ~DictHas(subs, DictGet(p.headers, <<"destination">>))
    THEN [err |-> "KeyError", invoked |-> acc]
    ELSE IF items[i][2].kind # "object"
    THEN [err |-> "AttributeError", invoked |-> acc]
    ELSE LET f == DictGet(subs, DictGet(p.headers, <<"destination">>)).callback
         IN  dispatch_list(items, i + 1, subs, p,
                 Append(acc, Call(f, get_status_message(p.command, p.headers,
                                                        items[i][2]),
                                  ~iscoroutinefunction(f))))

\* The acknowledgement after the callback (stomp.py 213).
ack_step(headers, vin) ==
    IF DictHas(headers, <<"message-id">>)
    THEN [err |-> "", out |-> <<ack_message(DictGet(headers, <<"message-id">>), vin)>>]
    ELSE [err |-> "KeyError", out |-> <<>>]

\* _on_message up to its first suspension (stomp.py 184-213), as the record
\* of what it does: the exception it raises (err), the new connected flag,
\* the callback calls it makes, the texts it sends, and where it is suspended.
on_message_run(message, subs, flag) ==
    LET quiet == [err |-> "", connected |-> flag, invoked |-> <<>>, out |-> <<>>,
                  next |-> DispIdle]
        p == parse_message(message)
    IN
    IF message = <<LF>> THEN [quiet EXCEPT !.out = send_heartbeat]
    ELSE IF p.err # "" THEN [quiet EXCEPT !.err = p.err]
    ELSE LET conn1 == IF p.command = <<"CONNECTED">> THEN TRUE ELSE flag
             q == [quiet EXCEPT !.connected = conn1]
         IN
         IF p.command # <<"MESSAGE">> THEN q
         ELSE IF ~p.body.some THEN [q EXCEPT !.err = "TypeError"]
         ELSE LET j == json_loads(filter_non_printable(p.body.val))
              IN
              IF j.err # "" THEN [q EXCEPT !.err = j.err]
              ELSE IF j.value.kind = "list"
              THEN LET r == dispatch_list(j.value.items, 1, subs, p, <<>>)
                   IN  [q EXCEPT !.err = r.err, !.invoked = r.invoked]
              ELSE IF j.value.kind # "object"
              THEN [q EXCEPT !.err = "AttributeError"]
              ELSE IF ~DictHas(p.headers, <<"destination">>)
                      \/ ~DictHas(subs, DictGet(p.headers, <<"destination">>))
              THEN [q EXCEPT !.err = "KeyError"]
              ELSE LET sm == get_status_message(p.command, p.headers, j.value)
                       func == DictGet(subs, DictGet(p.headers,
                                                     <<"destination">>)).callback
                       ack == ack_step(p.headers, sm.vin)
                   IN
                   IF iscoroutinefunction(func)
                   THEN [q EXCEPT !.invoked = <<Call(func, sm, FALSE)>>,
                                  !.next = [pc |-> "await_callback",
                                            headers |-> p.headers,
                                            vin |-> sm.vin, at |-> 0]]
                   ELSE [q EXCEPT !.invoked = <<Call(func, sm, TRUE)>>,
                                  !.err = ack.err, !.out = ack.out]

Texts(by, n, out) == [i \in 1..Len(out) |-> [by |-> by, n |-> n, text |-> out[i]]]

\* The transport hands one payload to _on_message; it hands over the next
\* one when the handler has returned.
on_message(message) ==
    /\ ws_connected
    /\ disp.pc = "idle"
    /\ Len(inlog) < budget.inbound
    /\ message \in budget.frames
    /\ LET r == on_message_run(message, subscriptions, connected)
           n == Len(inlog) + 1
       IN  /\ connected' = r.connected
           /\ sent' = sent \o Texts("on_message", n, r.out)
           /\ delivered' = delivered \o
                  [i \in 1..Len(r.invoked) |->
                      [n |-> n, callback |-> r.invoked[i].callback,
                       event |-> r.invoked[i].event, ran |-> r.invoked[i].ran]]
           /\ disp' = [r.next EXCEPT !.at = Len(delivered) + 1]
           /\ inlog' = Append(inlog, [message |-> message, err |-> r.err,
                                      subs |-> subscriptions,
                                      connected |-> connected])
    /\ UNCHANGED <<subscriptions, ws, calls, hist, nCalls, budget, codec, conn>>

\* _on_message resumed after `await func(status_message)` (stomp.py 210-213):
\* the callback has run; acknowledge.
on_message_resume ==
    /\ disp.pc = "await_callback"
    /\ LET ack == ack_step(disp.headers, disp.vin)
       IN  /\ delivered' = [delivered EXCEPT ![disp.at].ran = TRUE]
           /\ sent' = sent \o Texts("on_message", Len(inlog), ack.out)
           /\ inlog' = [inlog EXCEPT ![Len(inlog)].err = ack.err]
    /\ disp' = DispIdle
    /\ UNCHANGED <<subscriptions, connected, ws, calls, hist, nCalls, budget, codec, conn>>

Next ==
    \/ \E t \in DOMAIN calls : ws_connect(t)
    \/ \E t \in DOMAIN calls : ws_connect_resume(t)
    \/ \E t \in DOMAIN calls : connect_poll(t)
    \/ on_connect
    \/ on_disconnect
    \/ \E t \in DOMAIN calls, d \in Dests, f \in Callbacks : subscribe(t, d, f)
    \/ \E t \in DOMAIN calls : subscribe_resume(t)
    \/ \E t \in DOMAIN calls, d \in Dests : unsubscribe(t, d)
    \/ \E t \in DOMAIN calls : unsubscribe_resume(t)
    \/ \E t \in DOMAIN calls : disconnect(t)
    \/ \E t \in DOMAIN calls : disconnect_resume(t)
    \/ \E t \in DOMAIN calls : disconnect_close(t)
    \/ \E t \in DOMAIN calls : disconnect_poll(t)
    \/ \E t \in DOMAIN calls : ws_disconnect(t)
    \/ \E m \in AllFrames : on_message(m)
    \/ on_message_resume

Spec == Init /\ [][Next]_vars

-----------------------------------------------------------------------------
(* Codec runs: a frame is built by _transmit from (command, headers, body) *)
(* and the text handed to the transport is parsed by _parse_message.       *)

CodecKeys == { <<"k1">>, <<"k2">>, <<"id">> }
CodecValues == { <<"v">>, <<>>, <<"a", COLON, "b">> }
CodecBodies == { None, Some(<<>>), Some(<<"x">>), Some(<<"x", SP, "y">>) }

HeaderDicts ==
    UNION { { d \in [1..n -> CodecKeys \X CodecValues] :
                \A i, j \in 1..n : i # j => d[i][1] # d[j][1] } :
            n \in 0..MaxHeaders }

InitCodec ==
    /\ Constructed
    /\ budget = QuietProfile
    /\ conn = NewConnection("")
    /\ \E c \in STOMPCommands, h \in HeaderDicts, b \in CodecBodies :
           codec = [pc |-> "in", command |-> Some(c), headers |-> h, body |-> b,
                    out |-> [err |-> ""]]

\* _transmit (stomp.py 266-295): build the frame and send it.
codec_transmit ==
    /\ codec.pc = "in"
    /\ SendMessage("codec", transmit(codec.command, codec.headers, codec.body))
    /\ codec' = [codec EXCEPT !.pc = "sent"]
    /\ UNCHANGED <<subscriptions, connected, ws, calls, disp, delivered, inlog,
                   hist, nCalls, budget, conn>>

\* _parse_message (stomp.py 238-264) on the text that was sent.
codec_parse ==
    /\ codec.pc = "sent"
    /\ codec' = [codec EXCEPT !.pc = "parsed",
                              !.out = parse_message(sent[Len(sent)].text)]
    /\ UNCHANGED <<subscriptions, connected, ws, sent, calls, disp, delivered,
                   inlog, hist, nCalls, budget, conn>>

NextCodec == codec_transmit \/ codec_parse

SpecCodec == InitCodec /\ [][NextCodec]_vars

-----------------------------------------------------------------------------
(* Concurrent callers: two tasks of one event loop use the session, as in  *)
(* asyncio.gather(sc.subscribe(a, f), sc.subscribe(b, g)).  A task runs    *)
(* until it awaits; at `await self._transmit(...)` (stomp.py 123) it is    *)
(* suspended in the transport's send and the other task may run.           *)

ConcurrentTasks == {"t1", "t2"}

\* Bound on the subscribe calls the two tasks make together.
MaxConcurrentCalls == 3

ConcurrentProfile ==
    [calls |-> MaxConcurrentCalls, dests |-> Dests, inbound |-> 1,
     frames |-> {ConnectedFrame}, api |-> {"subscribe"}]

InitConcurrent ==
    /\ subscriptions = <<>>
    /\ connected = FALSE
    /\ ws = "idle"
    /\ sent = <<>>
    /\ calls = [t \in ConcurrentTasks |-> NoCall]
    /\ disp = DispIdle
    /\ delivered = <<>>
    /\ inlog = <<>>
    /\ hist = <<>>
    /\ nCalls = 0
    /\ budget = ConcurrentProfile
    /\ codec = CodecIdle
    /\ conn = NewConnection("cb_sync")

NextConcurrent ==
    \/ \E t \in DOMAIN calls : ws_connect(t)
    \/ \E t \in DOMAIN calls : ws_connect_resume(t)
    \/ \E t \in DOMAIN calls : connect_poll(t)
    \/ on_connect
    \/ on_message(ConnectedFrame)
    \/ \E t \in DOMAIN calls, d \in Dests, f \in Callbacks : subscribe(t, d, f)
    \/ \E t \in DOMAIN calls : subscribe_resume(t)

SpecConcurrent == InitConcurrent /\ [][NextConcurrent]_vars

-----------------------------------------------------------------------------
(* Claims.                                                                 *)

HasColon(text) == \E i \in 1..Len(text) : text[i] = COLON

ColonFree(headers) ==
    \A i \in 1..Len(headers) : ~HasColon(headers[i][1]) /\ ~HasColon(headers[i][2])

\* The command line of a sent or received text, and one of its headers
\* (None when the text has no such header or does not parse).
CommandOf(text) == Strip(Split(text, LF)[1])

HeaderOf(text, key) ==
    LET p == parse_message(text)
    IN  IF p.err = "" /\ DictHas(p.headers, key)
        THEN Some(DictGet(p.headers, key)) ELSE None

\* The texts task t has sent since position from of the log.
SentBy(t, from) ==
    LET mine == SelectSeq(SubSeq(sent, from + 1, Len(sent)), LAMBDA e : e.by = t)
    IN  [i \in 1..Len(mine) |-> mine[i].text]

\* C1: a disconnect() on a registry holding two subscriptions sends
\* UNSUBSCRIBE for the first, UNSUBSCRIBE for the second, DISCONNECT and the
\* close sentinel, in this order and nothing else, and leaves the registry
\* empty.
C1_DisconnectSequence ==
    \A t \in DOMAIN calls :
        (calls[t].op = "disconnect" /\ calls[t].pc = "done"
            /\ Len(calls[t].subs0) = 2)
        => LET out == SentBy(t, calls[t].from)
               idA == SubIdText(calls[t].subs0[1][2].sub_id)
               idB == SubIdText(calls[t].subs0[2][2].sub_id)
           IN  /\ Len(out) = 4
               /\ CommandOf(out[1]) = <<"UNSUBSCRIBE">>
               /\ HeaderOf(out[1], <<"id">>) = Some(idA)
               /\ CommandOf(out[2]) = <<"UNSUBSCRIBE">>
               /\ HeaderOf(out[2], <<"id">>) = Some(idB)
               /\ CommandOf(out[3]) = <<"DISCONNECT">>
               /\ out[4] = <<"CLOSE">>
               /\ subscriptions = <<>>

\* The frames of the log with a given command.
FramesOf(command) == SelectSeq(sent, LAMBDA e : CommandOf(e.text) = command)

MaxOf(S) == CHOOSE m \in S : \A n \in S : n <= m

OnlySubscribes(h) == \A i \in 1..Len(h) : h[i].op = "subscribe"

DistinctDests(h) ==
    \A i, j \in 1..Len(h) : i # j => h[i].destination # h[j].destination

\* Every call made so far was a subscribe or unsubscribe that has returned
\* normally, and the transport has not closed.
AllCompleted ==
    /\ Len(hist) = nCalls
    /\ \A i \in 1..Len(hist) : hist[i].op \in {"subscribe", "unsubscribe"}

\* C2: from an empty registry, N sequential subscribes to N distinct
\* destinations record and send the ids 1..N in issuance order; when one of
\* them is then removed and a new destination subscribed, the new id is the
\* largest remaining id plus one (1 when none remains).
C2_IdAllocation ==
    AllCompleted =>
        /\ (OnlySubscribes(hist) /\ DistinctDests(hist))
               => \A i \in 1..Len(hist) :
                      /\ hist[i].sub_id = i
                      /\ HeaderOf(FramesOf(<<"SUBSCRIBE">>)[i].text, <<"id">>)
                             = Some(SubIdText(i))
                      /\ subscriptions[i][1] = hist[i].destination
                      /\ subscriptions[i][2].sub_id = i
        /\ \A N \in 1..(Len(hist) - 2) :
               LET first == SubSeq(hist, 1, N)
                   gone == hist[N + 1].destination
                   remaining == { first[i].sub_id : i \in { j \in 1..N :
                                      first[j].destination # gone } }
                   kept == { first[i].destination : i \in { j \in 1..N :
                                 first[j].destination # gone } }
               IN  (/\ Len(hist) = N + 2
                    /\ OnlySubscribes(first) /\ DistinctDests(first)
                    /\ hist[N + 1].op = "unsubscribe"
                    /\ hist[N + 2].op = "subscribe"
                    /\ hist[N + 2].destination \notin kept)
                   => /\ hist[N + 2].sub_id =
                             IF remaining = {} THEN 1 ELSE MaxOf(remaining) + 1
                      /\ HeaderOf(FramesOf(<<"SUBSCRIBE">>)[N + 1].text, <<"id">>)
                             = Some(SubIdText(hist[N + 2].sub_id))

\* C2's case: two subscribes, the first one removed, a third subscribe.
C2_Witness ==
    /\ AllCompleted
    /\ Len(hist) = 4
    /\ OnlySubscribes(SubSeq(hist, 1, 2)) /\ DistinctDests(SubSeq(hist, 1, 2))
    /\ hist[3].op = "unsubscribe" /\ hist[3].destination = hist[1].destination
    /\ hist[4].op = "subscribe" /\ hist[4].destination # hist[2].destination
    /\ hist[4].sub_id = 3

IsConnectedFrame(message) == message = ConnectedFrame

\* C3: connected is true only if a CONNECTED frame has been received and no
\* transport close signal and no completed disconnect() has followed it; the
\* open signal alone (the CONNECT frame sent) does not set it.
C3_ConnectedOnlyAfterFrame ==
    connected =>
        /\ \E i \in 1..Len(inlog) : IsConnectedFrame(inlog[i].message)
        /\ \A i \in 1..Len(hist) : hist[i].op \notin {"close", "disconnect"}

\* C3's case: connected after the handshake, with a disconnect() that has
\* sent its close sentinel but not yet completed.
C3_Witness ==
    /\ connected
    /\ \E t \in DOMAIN calls : calls[t].op = "disconnect" /\ calls[t].pc = "poll"

\* SUBSCRIBE frames sent for destination d minus UNSUBSCRIBE frames sent for
\* one of the ids those frames carry.
Outstanding(d) ==
    LET subs == { i \in 1..Len(sent) :
                    /\ CommandOf(sent[i].text) = <<"SUBSCRIBE">>
                    /\ HeaderOf(sent[i].text, <<"destination">>) = Some(d) }
        ids == { HeaderOf(sent[i].text, <<"id">>) : i \in subs }
        unsubs == { i \in 1..Len(sent) :
                      /\ CommandOf(sent[i].text) = <<"UNSUBSCRIBE">>
                      /\ HeaderOf(sent[i].text, <<"id">>) \in ids }
    IN  Cardinality(subs) - Cardinality(unsubs)

\* C4: after any sequence of completed subscribe and unsubscribe calls, a
\* destination in the registry has exactly one outstanding SUBSCRIBE on the
\* server and a destination not in it has none.
C4_OneOutstanding ==
    (AllCompleted /\ ws_connected)
        => \A d \in Dests :
               Outstanding(d) = IF DictHas(subscriptions, d) THEN 1 ELSE 0

\* The callback calls and the texts sent while inbound payload n was handled.
CallsOf(n) == SelectSeq(delivered, LAMBDA e : e.n = n)
SentFor(n) ==
    LET mine == SelectSeq(sent, LAMBDA e : e.by = "on_message" /\ e.n = n)
    IN  [i \in 1..Len(mine) |-> mine[i].text]

\* The handler of inbound payload n has returned.
Handled(n) == n < Len(inlog) \/ disp.pc = "idle"

Contains(text, part) ==
    \E i \in 1..(Len(text) - Len(part) + 1) :
        SubSeq(text, i, i + Len(part) - 1) = part

\* Inbound payload n is a MESSAGE frame for destination d with body doc, and
\* d was in the registry when it arrived.
MessageCase(n, d, doc) ==
    /\ inlog[n].message = MessageFrame(d, MessageId, doc)
    /\ DictHas(inlog[n].subs, d)

\* The acknowledgement frame for a message object: a SEND to the
\* acknowledgement destination with the message id in its body, the device
\* header, and a vin header exactly when the object has a vin.
IsAck(text, obj) ==
    LET p == parse_message(text)
    IN  /\ p.err = ""
        /\ p.command = <<"SEND">>
        /\ DictHas(p.headers, <<"destination">>)
        /\ DictGet(p.headers, <<"destination">>) = <<"/app/messageRecieved">>
        /\ DictHas(p.headers, <<"device">>)
        /\ DictGet(p.headers, <<"device">>) = DeviceId
        /\ IF DictHas(obj.items, "v")
           THEN /\ DictHas(p.headers, <<"vin">>)
                /\ DictGet(p.headers, <<"vin">>) = <<DictGet(obj.items, "v").atom>>
           ELSE ~DictHas(p.headers, <<"vin">>)
        /\ p.body.some
        /\ Contains(p.body.val, MessageId)

\* C5: a MESSAGE frame with a single-object body for a registered
\* destination has that destination's callback called exactly once, with the
\* StatusEvent built from the object; once the callback has finished, and
\* not before, exactly one acknowledgement frame is sent.
C5_SingleDispatch ==
    \A n \in 1..Len(inlog), d \in MessageDests, doc \in {"{full}", "{plain}"} :
        MessageCase(n, d, doc)
        => LET cs == CallsOf(n)
               acks == SentFor(n)
               obj == JsonDocs[doc]
           IN  /\ Len(cs) = 1
               /\ cs[1].callback = DictGet(inlog[n].subs, d).callback
               /\ cs[1].event.command = <<"MESSAGE">>
               /\ cs[1].event.topic = Some(d)
               /\ cs[1].event.vin = JGet(obj, "v")
               /\ doc = "{full}"
                      => /\ cs[1].event.vin = JAtom("VIN123")
                         /\ cs[1].event.data = JObj(<< <<"k", JAtom("1")>> >>)
               /\ Len(acks) <= 1
               /\ Len(acks) = 1 => cs[1].ran /\ IsAck(acks[1], obj)
               /\ Handled(n) => Len(acks) = 1 /\ inlog[n].err = ""

\* C5's case: a single-object MESSAGE with a vin for a destination whose
\* callback is a coroutine function, handled to the end.
C5_Witness ==
    \E n \in 1..Len(inlog), d \in MessageDests :
        /\ MessageCase(n, d, "{full}")
        /\ iscoroutinefunction(DictGet(inlog[n].subs, d).callback)
        /\ Handled(n)
        /\ Len(SentFor(n)) = 1

\* C6: a MESSAGE frame whose body is an array of k objects, for a registered
\* destination, has that destination's callback called exactly k times, once
\* per element in array order, and no acknowledgement frame is sent for it.
C6_BatchDispatch ==
    \A n \in 1..Len(inlog), d \in MessageDests :
        MessageCase(n, d, "[full,plain,other]")
        => LET cs == CallsOf(n)
               items == JsonDocs["[full,plain,other]"].items
           IN  /\ Len(cs) = Len(items)
               /\ \A i \in 1..Len(cs) :
                      /\ cs[i].callback = DictGet(inlog[n].subs, d).callback
                      /\ cs[i].event.topic = Some(d)
                      /\ cs[i].event.vin = JGet(items[i][2], "v")
                      /\ cs[i].event.message_timestamp = JGet(items[i][2], "t")
               /\ SentFor(n) = <<>>
               /\ inlog[n].err = ""

\* C6's case: an array of three objects dispatched to a registered callback.
C6_Witness ==
    \E n \in 1..Len(inlog), d \in MessageDests :
        /\ MessageCase(n, d, "[full,plain,other]")
        /\ Len(CallsOf(n)) = 3
        /\ Len(inlog[n].subs) = 2

HeartbeatsIn == Cardinality({ n \in 1..Len(inlog) : inlog[n].message = Heartbeat })
HeartbeatsOut == Cardinality({ i \in 1..Len(sent) : sent[i].text = Heartbeat })

\* C7: every inbound line-feed sentinel makes the dispatcher send exactly one
\* heartbeat and nothing else, raises nothing (it does not reach the parser)
\* and leaves connected and the registry as they were; n sentinels give n
\* heartbeats.
C7_Heartbeat ==
    /\ [](HeartbeatsOut = HeartbeatsIn)
    /\ [][(Len(inlog') = Len(inlog) + 1 /\ inlog'[Len(inlog')].message = Heartbeat)
            => /\ sent' = Append(sent, [by |-> "on_message", n |-> Len(inlog'),
                                        text |-> Heartbeat])
               /\ inlog'[Len(inlog')].err = ""
               /\ connected' = connected
               /\ subscriptions' = subscriptions
               /\ delivered' = delivered]_vars

\* C7's case: a heartbeat answered on a connected session with a subscription.
C7_Witness ==
    /\ HeartbeatsIn >= 1 /\ HeartbeatsOut >= 1
    /\ inlog[Len(inlog)].message = Heartbeat
    /\ inlog[Len(inlog)].connected
    /\ inlog[Len(inlog)].subs # <<>>

\* C8: for every command, every colon-free header dict (the empty one
\* included) and every body that is absent or a NUL-free single line,
\* parsing the text _transmit builds gives back (command, headers, body).
C8_RoundTrip ==
    (codec.pc = "parsed" /\ ColonFree(codec.headers))
        => /\ codec.out.err = ""
           /\ codec.out.command = codec.command.val
           /\ DictEq(codec.out.headers, codec.headers)
           /\ codec.out.body = codec.body

\* C9: unsubscribe(d) of a destination that is in the registry with id n
\* transmits an UNSUBSCRIBE frame whose id header is sub-n and then removes d.
C9_UnsubscribeOwnId ==
    \A t \in DOMAIN calls :
        (calls[t].op = "unsubscribe" /\ calls[t].sub_id # 0)
        => /\ CommandOf(sent[calls[t].from + 1].text) = <<"UNSUBSCRIBE">>
           /\ HeaderOf(sent[calls[t].from + 1].text, <<"id">>)
                  = Some(SubIdText(calls[t].sub_id))
           /\ calls[t].pc = "done" => ~DictHas(subscriptions, calls[t].destination)

\* C10: unsubscribe(d) of a destination that is not in the registry returns
\* normally, having sent one UNSUBSCRIBE frame without an id header and left
\* the registry as it was.
C10_UnsubscribeUnknown ==
    \A t \in DOMAIN calls :
        (calls[t].op = "unsubscribe" /\ calls[t].sub_id = 0
            /\ calls[t].pc # "await_transmit")
        => /\ calls[t].pc = "done"
           /\ Len(SentBy(t, calls[t].from)) = 1
           /\ CommandOf(sent[calls[t].from + 1].text) = <<"UNSUBSCRIBE">>
           /\ HeaderOf(sent[calls[t].from + 1].text, <<"id">>) = None
           /\ subscriptions = calls[t].subs0

\* The ids subscribe() has issued, in issuance order: the ids of the SUBSCRIBE
\* frames of the log.
IssuedIds ==
    LET fs == FramesOf(<<"SUBSCRIBE">>)
    IN  [i \in 1..Len(fs) |-> HeaderOf(fs[i].text, <<"id">>)]

\* C11: every id subscribe() issues in a session is strictly greater than
\* every id it issued earlier, whatever subscribes and unsubscribes came
\* before; so no id is issued twice, also after the subscription holding the
\* largest id was removed.
C11_IdsStrictlyIncreasing ==
    /\ \A i, j \in 1..Len(hist) :
           (i < j /\ hist[i].op = "subscribe" /\ hist[j].op = "subscribe")
           => hist[i].sub_id < hist[j].sub_id
    /\ \A i, j \in 1..Len(IssuedIds) : i # j => IssuedIds[i] # IssuedIds[j]

\* C12: the transport's close signal, whatever state the session is in
\* (connecting, connected, in the middle of a disconnect()), empties the
\* registry, sets connected to false and sends nothing.
C12_CloseSignal ==
    [][(ws # "closed" /\ ws' = "closed")
           => /\ subscriptions' = <<>>
              /\ connected' = FALSE
              /\ sent' = sent]_vars

\* C12's case: the close signal came while a disconnect() was waiting in the
\* unsubscribe of a destination that was still in the registry.
C12_Witness ==
    /\ ws = "closed"
    /\ subscriptions = <<>> /\ ~connected
    /\ \E t \in DOMAIN calls :
           /\ calls[t].op = "disconnect" /\ calls[t].pc = "await_unsubscribe"
           /\ calls[t].keys # <<>>
    /\ hist[Len(hist)].op = "close"

\* C13: ws_connect on a Connection without a message callback fails with
\* JLRException before a STOMP client is created and before any websocket-URL
\* request or transport connection attempt; the Connection's client and task
\* stay unset.
C13_NoCallbackFails ==
    conn.ws_message_callback = ""
    => /\ conn.pc \in {"new", "raised"}
       /\ conn.pc = "raised" => conn.err = "JLRException"
       /\ ~conn.sc /\ ~conn.sc_task
       /\ conn.urls = 0
       /\ ws = "idle" /\ sent = <<>>
       /\ \A t \in DOMAIN calls : calls[t] = NoCall

\* C13's case: ws_connect has been called without a callback and has raised.
C13_Witness ==
    /\ conn.ws_message_callback = ""
    /\ conn.pc = "raised" /\ conn.err = "JLRException"

\* Inbound payload n is a frame the dispatcher cannot process: malformed, or
\* a MESSAGE for a destination that had no registry entry when it arrived.
Unprocessable(n) ==
    \/ inlog[n].message \in {NoColonFrame, TruncatedFrame}
    \/ \E d \in Dests, doc \in DOMAIN JsonDocs :
           /\ inlog[n].message = MessageFrame(d, MessageId, doc)
           /\ ~DictHas(inlog[n].subs, d)

\* C14: a frame the dispatcher cannot process (a header line without a colon,
\* a frame truncated before the header terminator, a MESSAGE for a
\* destination without a registry entry) is dropped: the handler returns
\* without raising, calls no callback and sends no acknowledgement.
C14_FaultyFramesDropped ==
    \A n \in 1..Len(inlog) :
        Unprocessable(n)
        => /\ inlog[n].err = ""
           /\ CallsOf(n) = <<>>
           /\ SentFor(n) = <<>>

\* C15: whenever the dispatcher has finished handling a frame, the body of
\* every callback it invoked for that frame has run to completion: for a
\* single-object MESSAGE and for each element of an array, for a plain
\* function and for a coroutine function.
C15_CallbackCompletes ==
    \A n \in 1..Len(inlog) :
        Handled(n) => \A i \in 1..Len(CallsOf(n)) : CallsOf(n)[i].ran

\* connect() has returned to task t.
ConnectReturned(t) ==
    calls[t].pc # "" /\ ~(calls[t].op = "connect" /\ calls[t].pc = "poll")

ConnectedFrameSeen == \E i \in 1..Len(inlog) : IsConnectedFrame(inlog[i].message)

\* C16: connect() returns only after it has seen connected true: as long as
\* no CONNECTED frame has been delivered (the transport did not open, it
\* closed, other frames came instead) connect() has not returned; the step
\* that leaves its poll loop is taken with connected true; it never reopens
\* the transport and at most one CONNECT frame is ever sent.
C16_ConnectWaits ==
    /\ [](\A t \in DOMAIN calls : ConnectReturned(t) => ConnectedFrameSeen)
    /\ [](Len(FramesOf(<<"CONNECT">>)) <= 1)
    /\ [][/\ \A t \in DOMAIN calls :
                 (calls[t].op = "connect" /\ calls[t].pc = "poll"
                     /\ calls'[t].pc # "poll") => connected
          /\ ws = "closed" => ws' = "closed"]_vars

\* C16's case: the transport has closed after the CONNECT frame and other
\* payloads, no CONNECTED frame came, and connect() is still in its loop.
C16_Witness ==
    /\ ws = "closed"
    /\ ~ConnectedFrameSeen
    /\ Len(inlog) >= 1
    /\ Len(FramesOf(<<"CONNECT">>)) = 1
    /\ \E t \in DOMAIN calls : calls[t].op = "connect" /\ calls[t].pc = "poll"

\* The header dict has colon-free keys and at least one value with a colon.
ColonInValue(headers) ==
    /\ \A i \in 1..Len(headers) : ~HasColon(headers[i][1])
    /\ \E i \in 1..Len(headers) : HasColon(headers[i][2])

\* C17: _parse_message splits a header line on its first colon only: a frame
\* with a header whose value contains colons parses, the text before the
\* first colon being the key and all the text after it the value.
C17_FirstColonSplit ==
    (codec.pc = "parsed" /\ ColonInValue(codec.headers))
        => /\ codec.out.err = ""
           /\ DictEq(codec.out.headers, codec.headers)

\* What the claim takes for the data of the event built from a message
\* object: the value under `a` when the key is there, else the object.
DataOf(obj) == IF DictHas(obj.items, "a") THEN DictGet(obj.items, "a") ELSE obj

\* C18: the data of every StatusEvent handed to a callback is the value of
\* the message object's `a` key whenever the object has that key, whatever
\* the value (0 and other false values included), and the whole object only
\* when it has no `a` key.
C18_DataIsA ==
    \A n \in 1..Len(inlog), d \in Dests, doc \in DOMAIN JsonDocs :
        inlog[n].message = MessageFrame(d, MessageId, doc)
        => LET cs == CallsOf(n)
               v == JsonDocs[doc]
           IN  \A i \in 1..Len(cs) :
                   cs[i].event.data =
                       DataOf(IF v.kind = "list" THEN v.items[i][2] ELSE v)

\* C19: a ws_disconnect() called after a successful ws_connect, while the
\* websocket connection task is still running, performs the client's
\* disconnect(): the subscriptions are unsubscribed, a DISCONNECT frame and
\* the close sentinel are sent, and connected is false afterwards.
C19_WsDisconnect ==
    \A t \in DOMAIN calls :
        (calls[t].op = "ws_disconnect" /\ calls[t].pc = "done")
        => LET out == SentBy(t, calls[t].from)
           IN  /\ ~connected
               /\ subscriptions = <<>>
               /\ \E i \in 1..Len(out) : CommandOf(out[i]) = <<"DISCONNECT">>
               /\ \E i \in 1..Len(out) : out[i] = <<"CLOSE">>

\* Tasks t and u are both suspended in the send of a subscribe(), for
\* different destinations.
BothInFlight(t, u) ==
    /\ t # u
    /\ calls[t].op = "subscribe" /\ calls[t].pc = "await_transmit"
    /\ calls[u].op = "subscribe" /\ calls[u].pc = "await_transmit"
    /\ calls[t].destination # calls[u].destination

\* C20: subscribe calls for distinct destinations that are in flight at the
\* same time send SUBSCRIBE frames with pairwise distinct ids, and when all
\* have completed no two registry entries share an id.
C20_ConcurrentSubscribes ==
    /\ \A t, u \in DOMAIN calls :
           BothInFlight(t, u)
           => /\ calls[t].sub_id # calls[u].sub_id
              /\ HeaderOf(sent[calls[t].from + 1].text, <<"id">>)
                     # HeaderOf(sent[calls[u].from + 1].text, <<"id">>)
    /\ (\A t \in DOMAIN calls : calls[t].pc # "await_transmit")
           => \A i, j \in 1..Len(subscriptions) :
                  i # j => subscriptions[i][2].sub_id # subscriptions[j][2].sub_id

\* C21: a disconnect() during which the transport's close signal arrives
\* (while it awaits the send of an UNSUBSCRIBE or of the DISCONNECT frame, or
\* while it polls for closure) does not raise, and when it has returned
\* connected is false and the registry is empty.
C21_DisconnectSurvivesClose ==
    \A t \in DOMAIN calls :
        (calls[t].op = "disconnect" /\ ws = "closed")
        => /\ calls[t].pc # "raised"
           /\ calls[t].pc = "done" => ~connected /\ subscriptions = <<>>

====
